---- MODULE Spec2Model ----
(***************************************************************************)
(* Model of server.js (Curriculo em Minutos): the order record kept in     *)
(* MongoDB, the Stripe webhook, order creation, lookup, checkout-session   *)
(* issuance, the admin listing, the PDF download and the two renderers.    *)
(*                                                                         *)
(* JavaScript values are tagged records: [t |-> "undefined"],              *)
(* [t |-> "string", s |-> ...], [t |-> "number", n |-> ...],               *)
(* [t |-> "object", o |-> record], [t |-> "array", a |-> sequence].        *)
(* The s of a string is its sequence of characters; text written to the    *)
(* document is a sequence of such characters and of literal pieces.        *)
(* Prices are kept in centavos.  Accented letters of the section titles    *)
(* are written without the accent.  The document records the text, rule,   *)
(* fill and moveDown calls; font, size and colour calls are left out.      *)
(***************************************************************************)
EXTENDS Integers, Sequences, FiniteSets, TLC

\* ------------------------------------------------------------------------
\* Bounds of the model
\* ------------------------------------------------------------------------
MaxClock == 1       \* Date.now() takes the values 0..MaxClock
MaxRand == 1        \* Math.floor(Math.random() * 100000) takes 0..MaxRand-1
MaxOrders == 1      \* at most this many orders are stored
MaxInflight == 1    \* requests suspended at an await at the same time

\* ------------------------------------------------------------------------
\* JavaScript values
\* ------------------------------------------------------------------------
Undef == [t |-> "undefined"]
Null == [t |-> "null"]
Str(s) == [t |-> "string", s |-> s]
Num(n) == [t |-> "number", n |-> n]
Bool(b) == [t |-> "boolean", b |-> b]
Obj(o) == [t |-> "object", o |-> o]
Arr(a) == [t |-> "array", a |-> a]

Nullish(v) == v.t \in {"undefined", "null"}

\* ToBoolean: undefined, null, false, "" and 0 are falsy
Truthy(v) ==
  CASE v.t = "string" -> v.s # <<>>
    [] v.t = "number" -> v.n # 0
    [] v.t = "boolean" -> v.b
    [] OTHER -> ~Nullish(v)

\* a || b
OrElse(a, b) == IF Truthy(a) THEN a ELSE b

\* v.k on an object (a key that is not there reads undefined)
Get(v, k) == IF v.t = "object" /\ k \in DOMAIN v.o THEN v.o[k] ELSE Undef

\* v?.k
OptGet(v, k) == IF Nullish(v) THEN Undef ELSE Get(v, k)

\* Array.isArray(v) && v.length
NonEmptyArray(v) == v.t = "array" /\ Len(v.a) > 0

\* ------------------------------------------------------------------------
\* Strings
\* ------------------------------------------------------------------------
Digit(n) ==
  CASE n = 0 -> "0" [] n = 1 -> "1" [] n = 2 -> "2" [] n = 3 -> "3"
    [] n = 4 -> "4" [] n = 5 -> "5" [] n = 6 -> "6" [] n = 7 -> "7"
    [] n = 8 -> "8" [] n = 9 -> "9"

\* decimal digits of a natural number, as `${n}` writes them
RECURSIVE NumToStr(_)
NumToStr(n) == IF n < 10 THEN <<Digit(n)>> ELSE NumToStr(n \div 10) \o <<Digit(n % 10)>>

RECURSIVE Flatten(_)
Flatten(ss) == IF ss = <<>> THEN <<>> ELSE Head(ss) \o Flatten(Tail(ss))

\* String(v), as string concatenation and PDFKit's text() convert a value
RECURSIVE ToStringJS(_)
ToStringJS(v) ==
  CASE v.t = "string" -> v.s
    [] v.t = "number" -> NumToStr(v.n)
    [] v.t = "undefined" -> <<"undefined">>
    [] v.t = "null" -> <<"null">>
    [] v.t = "object" -> <<"[object Object]">>
    [] v.t = "array" ->
         Flatten([i \in 1..Len(v.a) |->
                    (IF i > 1 THEN <<",">> ELSE <<>>)
                    \o (IF Nullish(v.a[i]) THEN <<>> ELSE ToStringJS(v.a[i]))])

\* vals.filter(Boolean)
FilterBoolean(vals) == SelectSeq(vals, Truthy)

\* vals.join(sep)
Join(vals, sep) ==
  Flatten([i \in 1..Len(vals) |->
             (IF i > 1 THEN <<sep>> ELSE <<>>)
             \o (IF Nullish(vals[i]) THEN <<>> ELSE ToStringJS(vals[i]))])

\* title.toUpperCase() of the section titles
ToUpperCase(title) ==
  CASE title = "Objetivo" -> "OBJETIVO"
    [] title = "Formacao Academica" -> "FORMACAO ACADEMICA"
    [] title = "Habilidades e Competencias" -> "HABILIDADES E COMPETENCIAS"
    [] title = "Experiencia Profissional" -> "EXPERIENCIA PROFISSIONAL"
    [] title = "Informacao Complementar" -> "INFORMACAO COMPLEMENTAR"
    [] title = "Idiomas" -> "IDIOMAS"
    [] title = "Experiencia" -> "EXPERIENCIA"
    [] title = "Educacao" -> "EDUCACAO"
    [] title = "Habilidades" -> "HABILIDADES"
    [] title = "Cursos" -> "CURSOS"

\* ------------------------------------------------------------------------
\* The PDF document: the calls made on doc, in order
\* ------------------------------------------------------------------------
Text(content, align) == [op |-> "text", content |-> content, align |-> align]
Rule == [op |-> "rule"]
Fill == [op |-> "fill"]
MoveDown(hundredths) == [op |-> "moveDown", by |-> hundredths]

\* the result of running a piece of a renderer: the calls it made, and
\* whether it ended by throwing a TypeError
Ok(doc) == [threw |-> FALSE, doc |-> doc]
Threw(doc) == [threw |-> TRUE, doc |-> doc]
Then(r1, r2) == IF r1.threw THEN r1 ELSE [threw |-> r2.threw, doc |-> r1.doc \o r2.doc]

Min(S) == CHOOSE x \in S : \A y \in S : x <= y

\* arr.forEach(entry): reading a property of a null or undefined element
\* throws, and ends the loop there
ForEach(arr, Entry(_)) ==
  LET bad == {i \in 1..Len(arr) : Nullish(arr[i])}
      stop == IF bad = {} THEN Len(arr) ELSE Min(bad) - 1
  IN [threw |-> bad # {}, doc |-> Flatten([i \in 1..stop |-> Entry(arr[i])])]

\* [inicio, fim].filter(Boolean).join(' - '), '' when both are missing
Periodo(e) ==
  IF Truthy(Get(e, "inicio")) \/ Truthy(Get(e, "fim"))
    THEN Join(FilterBoolean(<<Get(e, "inicio"), Get(e, "fim")>>), " - ")
    ELSE <<>>

\* the line of a course, shared by both templates
CursoLinha(c) ==
  Join(FilterBoolean(<<OrElse(Get(c, "nome"), Str(<<>>)),
                       OrElse(Get(c, "instituicao"), Str(<<>>)),
                       IF Truthy(Get(c, "cargaHoraria"))
                         THEN Str(ToStringJS(Get(c, "cargaHoraria")) \o <<"h">>)
                         ELSE Str(<<>>)>>), " -- ")

CursoEntry(c) ==
  IF ~Truthy(Get(c, "nome")) /\ ~Truthy(Get(c, "instituicao")) THEN <<>>
  ELSE <<Text(<<"* ">> \o CursoLinha(c), "left")>>

IdiomaEntry(idioma) ==
  IF ~Truthy(Get(idioma, "nome")) THEN <<>>
  ELSE <<Text(<<"* ">> \o
              Join(FilterBoolean(<<Get(idioma, "nome"),
                                   IF Truthy(Get(idioma, "nivel"))
                                     THEN Str(<<"(">> \o ToStringJS(Get(idioma, "nivel")) \o <<")">>)
                                     ELSE Str(<<>>)>>), " "), "left")>>

HabilidadeEntry(h) == <<Text(<<"* ">> \o ToStringJS(h), "left")>>

\* ------------------------------------------------------------------------
\* renderClassic
\* ------------------------------------------------------------------------
addSection(titulo) ==
  <<Text(<<ToUpperCase(titulo), ":">>, "left"), MoveDown(20), Rule, MoveDown(40)>>

ClassicHeader(dadosPessoais) ==
  LET nome == OrElse(OptGet(dadosPessoais, "nome"), Str(<<"Nome do Profissional">>))
      cidadeEstado ==
        IF Truthy(OptGet(dadosPessoais, "cidade")) \/ Truthy(OptGet(dadosPessoais, "estado"))
          THEN <<Str(Join(FilterBoolean(<<Get(dadosPessoais, "cidade"),
                                         Get(dadosPessoais, "estado")>>), " / "))>>
          ELSE <<>>
      linha1 == cidadeEstado
                \o (IF Truthy(OptGet(dadosPessoais, "email"))
                      THEN <<OptGet(dadosPessoais, "email")>> ELSE <<>>)
                \o (IF Truthy(OptGet(dadosPessoais, "telefone"))
                      THEN <<OptGet(dadosPessoais, "telefone")>> ELSE <<>>)
      linha2 == (IF Truthy(OptGet(dadosPessoais, "linkedin"))
                   THEN <<OptGet(dadosPessoais, "linkedin")>> ELSE <<>>)
                \o (IF Truthy(OptGet(dadosPessoais, "site"))
                      THEN <<OptGet(dadosPessoais, "site")>> ELSE <<>>)
  IN <<Text(ToStringJS(nome), "center"), MoveDown(30)>>
     \o (IF linha1 # <<>> THEN <<Text(Join(linha1, " | "), "center")>> ELSE <<>>)
     \o (IF linha2 # <<>> THEN <<MoveDown(15), Text(Join(linha2, " | "), "center")>> ELSE <<>>)
     \o <<MoveDown(80)>>

ClassicObjetivo(objetivo) ==
  IF Truthy(OptGet(objetivo, "texto"))
    THEN addSection("Objetivo")
         \o <<Text(ToStringJS(Get(objetivo, "texto")), "justify"), MoveDown(80)>>
    ELSE <<>>

ClassicFormacaoEntry(f) ==
  IF ~Truthy(Get(f, "curso")) /\ ~Truthy(Get(f, "instituicao")) THEN <<>>
  ELSE LET periodo == Periodo(f)
           inst == IF Truthy(Get(f, "instituicao"))
                     THEN ToStringJS(Get(f, "instituicao")) ELSE <<>>
           linha == IF periodo # <<>>
                      THEN inst \o (IF inst # <<>> THEN <<" -- ">> ELSE <<>>) \o periodo
                      ELSE inst
       IN <<Text(<<"* ">> \o ToStringJS(OrElse(Get(f, "curso"), Str(<<>>))), "left")>>
          \o (IF linha # <<>> THEN <<MoveDown(10), Text(linha, "left")>> ELSE <<>>)
          \o <<MoveDown(40)>>

ClassicFormacao(formacao) ==
  IF NonEmptyArray(formacao)
    THEN Then(Ok(addSection("Formacao Academica")),
              ForEach(formacao.a, ClassicFormacaoEntry))
    ELSE Ok(<<>>)

ClassicHabilidades(habilidades) ==
  IF NonEmptyArray(habilidades)
    THEN addSection("Habilidades e Competencias")
         \o Flatten([i \in 1..Len(habilidades.a) |-> HabilidadeEntry(habilidades.a[i])])
         \o <<MoveDown(60)>>
    ELSE <<>>

ClassicExperienciaEntry(exp) ==
  IF ~Truthy(Get(exp, "cargo")) /\ ~Truthy(Get(exp, "empresa")) THEN <<>>
  ELSE LET periodo == Periodo(exp)
           tituloLinha == Join(FilterBoolean(<<Get(exp, "cargo"), Get(exp, "empresa")>>), " - ")
           linha2 == (IF Truthy(Get(exp, "localidade")) THEN <<Get(exp, "localidade")>> ELSE <<>>)
                     \o (IF periodo # <<>> THEN <<Str(periodo)>> ELSE <<>>)
       IN (IF tituloLinha # <<>> THEN <<Text(tituloLinha, "left")>> ELSE <<>>)
          \o (IF linha2 # <<>> THEN <<MoveDown(10), Text(Join(linha2, " | "), "left")>> ELSE <<>>)
          \o (IF Truthy(Get(exp, "descricao"))
                THEN <<MoveDown(20), Text(ToStringJS(Get(exp, "descricao")), "justify")>>
                ELSE <<>>)
          \o <<MoveDown(60)>>

ClassicExperiencias(experiencias) ==
  IF NonEmptyArray(experiencias)
    THEN Then(Ok(addSection("Experiencia Profissional")),
              ForEach(experiencias.a, ClassicExperienciaEntry))
    ELSE Ok(<<>>)

ClassicCursos(cursos) ==
  IF NonEmptyArray(cursos)
    THEN Then(Then(Ok(addSection("Informacao Complementar")),
                   ForEach(cursos.a, CursoEntry)),
              Ok(<<MoveDown(60)>>))
    ELSE Ok(<<>>)

ClassicIdiomas(idiomas) ==
  IF NonEmptyArray(idiomas)
    THEN Then(Then(Ok(addSection("Idiomas")),
                   ForEach(idiomas.a, IdiomaEntry)),
              Ok(<<MoveDown(60)>>))
    ELSE Ok(<<>>)

renderClassic(d) ==
  Then(Ok(ClassicHeader(d.dadosPessoais)),
  Then(Ok(ClassicObjetivo(d.objetivo)),
  Then(ClassicFormacao(d.formacao),
  Then(Ok(ClassicHabilidades(d.habilidades)),
  Then(ClassicExperiencias(d.experiencias),
  Then(ClassicCursos(d.cursos),
       ClassicIdiomas(d.idiomas)))))))

\* ------------------------------------------------------------------------
\* renderModern
\* ------------------------------------------------------------------------
SubtitleMax == 60     \* primeiraFrase.length > 60
SubtitleKeep == 57    \* primeiraFrase.slice(0, 57)

IsSpace(c) == c = " "

\* s.trim()
RECURSIVE TrimLeft(_)
TrimLeft(s) == IF s # <<>> /\ IsSpace(Head(s)) THEN TrimLeft(Tail(s)) ELSE s

RECURSIVE TrimRight(_)
TrimRight(s) ==
  IF s # <<>> /\ IsSpace(s[Len(s)]) THEN TrimRight(SubSeq(s, 1, Len(s) - 1)) ELSE s

Trim(s) == TrimRight(TrimLeft(s))

\* s.split(/[.!?]/)[0]
PrimeiraFrase(s) ==
  LET ends == {i \in 1..Len(s) : s[i] \in {".", "!", "?"}}
  IN IF ends = {} THEN s ELSE SubSeq(s, 1, Min(ends) - 1)

\* s.slice(0, n)
Slice0(s, n) == SubSeq(s, 1, IF Len(s) < n THEN Len(s) ELSE n)

\* the subtitle under the name; split is a method of strings only
SubTitulo(objetivo) ==
  LET texto == OptGet(objetivo, "texto")
  IN IF ~Truthy(texto) THEN Ok(<<>>)
     ELSE IF texto.t # "string" THEN Threw(<<>>)
     ELSE LET primeiraFrase == PrimeiraFrase(texto.s)
          IN Ok(IF Len(primeiraFrase) > SubtitleMax
                  THEN Trim(Slice0(primeiraFrase, SubtitleKeep)) \o <<"...">>
                  ELSE Trim(primeiraFrase))

addSectionTitle(title) ==
  <<MoveDown(30), Text(<<ToUpperCase(title)>>, "left"), MoveDown(15), Rule, MoveDown(30)>>

ModernHeader(dadosPessoais, subTitulo) ==
  LET nome == OrElse(OptGet(dadosPessoais, "nome"), Str(<<>>))
  IN <<Text(ToStringJS(OrElse(nome, Str(<<"Nome Completo">>))), "left")>>
     \o (IF subTitulo # <<>> THEN <<MoveDown(20), Text(subTitulo, "left")>> ELSE <<>>)
     \o <<MoveDown(80)>>

ModernContato(dadosPessoais) ==
  LET contatos ==
        (IF Truthy(OptGet(dadosPessoais, "email"))
           THEN <<<<"Email: ">> \o ToStringJS(Get(dadosPessoais, "email"))>> ELSE <<>>)
        \o (IF Truthy(OptGet(dadosPessoais, "telefone"))
              THEN <<<<"Telefone: ">> \o ToStringJS(Get(dadosPessoais, "telefone"))>> ELSE <<>>)
        \o (IF Truthy(OptGet(dadosPessoais, "cidade")) \/ Truthy(OptGet(dadosPessoais, "estado"))
              THEN <<<<"Endereco: ">>
                     \o Join(FilterBoolean(<<Get(dadosPessoais, "cidade"),
                                             Get(dadosPessoais, "estado")>>), " / ")>>
              ELSE <<>>)
      links == Join(FilterBoolean(<<OptGet(dadosPessoais, "linkedin"),
                                    OptGet(dadosPessoais, "site")>>), "  .  ")
  IN IF contatos # <<>>
       THEN <<Text(<<"CONTATO">>, "left"), MoveDown(20)>>
            \o [i \in 1..Len(contatos) |-> Text(contatos[i], "left")]
            \o (IF (Truthy(OptGet(dadosPessoais, "linkedin"))
                    \/ Truthy(OptGet(dadosPessoais, "site"))) /\ links # <<>>
                  THEN <<MoveDown(10), Text(links, "left")>> ELSE <<>>)
            \o <<MoveDown(80)>>
       ELSE <<>>

ModernObjetivo(objetivo) ==
  IF Truthy(OptGet(objetivo, "texto"))
    THEN addSectionTitle("Objetivo")
         \o <<Text(ToStringJS(Get(objetivo, "texto")), "left"), MoveDown(60)>>
    ELSE <<>>

ModernExperienciaEntry(exp) ==
  IF ~Truthy(Get(exp, "cargo")) /\ ~Truthy(Get(exp, "empresa")) THEN <<>>
  ELSE LET periodo == Periodo(exp)
       IN <<Text(ToStringJS(OrElse(Get(exp, "cargo"), Str(<<>>))), "left")>>
          \o (IF Truthy(Get(exp, "empresa"))
                THEN <<MoveDown(10), Text(ToStringJS(Get(exp, "empresa")), "left")>> ELSE <<>>)
          \o (IF periodo # <<>> \/ Truthy(Get(exp, "localidade"))
                THEN <<MoveDown(5),
                       Text(Join(FilterBoolean(<<Str(periodo), Get(exp, "localidade")>>),
                                 "  .  "), "left")>>
                ELSE <<>>)
          \o (IF Truthy(Get(exp, "descricao"))
                THEN <<MoveDown(15), Text(ToStringJS(Get(exp, "descricao")), "left")>>
                ELSE <<>>)
          \o <<MoveDown(60)>>

ModernExperiencias(experiencias) ==
  IF NonEmptyArray(experiencias)
    THEN Then(Ok(addSectionTitle("Experiencia")),
              ForEach(experiencias.a, ModernExperienciaEntry))
    ELSE Ok(<<>>)

ModernFormacaoEntry(f) ==
  IF ~Truthy(Get(f, "curso")) /\ ~Truthy(Get(f, "instituicao")) THEN <<>>
  ELSE LET periodo == Periodo(f)
       IN <<Text(ToStringJS(OrElse(Get(f, "curso"), Str(<<>>))), "left")>>
          \o (IF Truthy(Get(f, "instituicao"))
                THEN <<MoveDown(10), Text(ToStringJS(Get(f, "instituicao")), "left")>> ELSE <<>>)
          \o (IF periodo # <<>> THEN <<MoveDown(5), Text(periodo, "left")>> ELSE <<>>)
          \o <<MoveDown(60)>>

ModernFormacao(formacao) ==
  IF NonEmptyArray(formacao)
    THEN Then(Ok(addSectionTitle("Educacao")),
              ForEach(formacao.a, ModernFormacaoEntry))
    ELSE Ok(<<>>)

ModernHabilidades(habilidades) ==
  IF NonEmptyArray(habilidades)
    THEN addSectionTitle("Habilidades")
         \o Flatten([i \in 1..Len(habilidades.a) |-> HabilidadeEntry(habilidades.a[i])])
         \o <<MoveDown(60)>>
    ELSE <<>>

ModernCursos(cursos) ==
  IF NonEmptyArray(cursos)
    THEN Then(Then(Ok(addSectionTitle("Cursos")),
                   ForEach(cursos.a, CursoEntry)),
              Ok(<<MoveDown(60)>>))
    ELSE Ok(<<>>)

ModernIdiomas(idiomas) ==
  IF NonEmptyArray(idiomas)
    THEN Then(Then(Ok(addSectionTitle("Idiomas")),
                   ForEach(idiomas.a, IdiomaEntry)),
              Ok(<<MoveDown(60)>>))
    ELSE Ok(<<>>)

renderModern(d) ==
  LET sub == SubTitulo(d.objetivo)
  IN Then(Ok(<<Fill>>),
     Then([threw |-> sub.threw, doc |-> <<>>],
     Then(Ok(ModernHeader(d.dadosPessoais, sub.doc)),
     Then(Ok(ModernContato(d.dadosPessoais)),
     Then(Ok(ModernObjetivo(d.objetivo)),
     Then(ModernExperiencias(d.experiencias),
     Then(ModernFormacao(d.formacao),
     Then(Ok(ModernHabilidades(d.habilidades)),
     Then(ModernCursos(d.cursos),
          ModernIdiomas(d.idiomas))))))))))

\* ------------------------------------------------------------------------
\* The order collection (orderSchema) and the requests
\* ------------------------------------------------------------------------
DefaultPrice == 1990     \* 19.9, in centavos
AdminLimit == 100        \* .limit(100)

VARIABLES
  orders,      \* the Order collection: orderId -> document
  now,         \* Date.now()
  inflight,    \* checkout-session requests suspended at their findOne
  response     \* the response of the request that completed last

vars == <<orders, now, inflight, response>>

\* `ORD-${Date.now()}-${Math.floor(Math.random() * 100000)}`
OrderIdOf(ts, r) == Str(<<"ORD-">> \o NumToStr(ts) \o <<"-">> \o NumToStr(r))

OrderIdSpace == {OrderIdOf(ts, r) : ts \in 0..MaxClock, r \in 0..(MaxRand - 1)}

\* session.id: the ids Stripe gives its Checkout sessions
SessionIdSpace == {Str(<<"cs_1">>), Str(<<"cs_2">>)}

\* an Array path of the schema: undefined is stored as the default []
CastArray(v) == IF v.t = "undefined" THEN Arr(<<>>) ELSE v

\* a handler that hands the whole body to new Order: paid is the body's
NewOrder_Spread(orderId, body, ts) ==
  [orderId |-> orderId,
   price |-> OrElse(Get(body, "price"), Num(DefaultPrice)),
   currency |-> Str(<<"BRL">>),
   paid |-> Truthy(Get(body, "paid")),
   paymentStatus |-> Str(<<"pending">>),
   paymentProvider |-> Str(<<"stripe">>),
   paymentSessionId |-> Undef,
   template |-> OrElse(Get(body, "template"), Str(<<"classico">>)),
   data |-> Obj([dadosPessoais |-> Get(body, "dadosPessoais"),
                 objetivo |-> Get(body, "objetivo"),
                 experiencias |-> CastArray(Get(body, "experiencias")),
                 formacoes |-> CastArray(Get(body, "formacoes")),
                 cursos |-> CastArray(Get(body, "cursos")),
                 habilidades |-> CastArray(Get(body, "habilidades")),
                 idiomas |-> CastArray(Get(body, "idiomas")),
                 redesSociais |-> CastArray(Get(body, "redesSociais")),
                 extras |-> CastArray(Get(body, "extras"))]),
   createdAt |-> ts,
   updatedAt |-> ts]

\* new Order({...}): the document of a create-order request, with the
\* schema's defaults and the timestamps of the save
NewOrder(orderId, body, ts) ==
  [orderId |-> orderId,
   price |-> OrElse(Get(body, "price"), Num(DefaultPrice)),
   currency |-> Str(<<"BRL">>),
   paid |-> FALSE,
   paymentStatus |-> Str(<<"pending">>),
   paymentProvider |-> Str(<<"stripe">>),
   paymentSessionId |-> Undef,
   template |-> OrElse(Get(body, "template"), Str(<<"classico">>)),
   data |-> Obj([dadosPessoais |-> Get(body, "dadosPessoais"),
                 objetivo |-> Get(body, "objetivo"),
                 experiencias |-> CastArray(Get(body, "experiencias")),
                 formacoes |-> CastArray(Get(body, "formacoes")),
                 cursos |-> CastArray(Get(body, "cursos")),
                 habilidades |-> CastArray(Get(body, "habilidades")),
                 idiomas |-> CastArray(Get(body, "idiomas")),
                 redesSociais |-> CastArray(Get(body, "redesSociais")),
                 extras |-> CastArray(Get(body, "extras"))]),
   createdAt |-> ts,
   updatedAt |-> ts]

\* Order.findOne({ orderId: id })
FindOne(id) == IF id \in DOMAIN orders THEN orders[id] ELSE Null

\* a suspended handler keeps of the document it read the fields it reads
\* after the await
Fields(order, names) == IF order = Null THEN Null ELSE [f \in names |-> order[f]]

\* a response: the route of the request it answers, the status and the
\* JSON body
Respond(route, status, body) == [route |-> route, status |-> status, body |-> body]

Error(msg) == [error |-> msg]

\* ------------------------------------------------------------------------
\* Request bodies and events the model sends
\* ------------------------------------------------------------------------
NomeAna == Str(<<"A", "n", "a", " ", "S">>)
EmailAna == Str(<<"a", "@", "x">>)

Formacao1 ==
  Obj([curso |-> Str(<<"C", "S">>), instituicao |-> Str(<<"U", "S", "P">>),
       inicio |-> Str(<<"2", "0", "1", "5">>), fim |-> Str(<<"2", "0", "1", "9">>)])

Experiencia1 ==
  Obj([cargo |-> Str(<<"D", "e", "v">>), empresa |-> Str(<<"A", "c", "m", "e">>),
       inicio |-> Str(<<"2", "0", "2", "0">>)])

\* the bodies of the create-order requests
Bodies ==
  { Obj([dadosPessoais |-> Obj([nome |-> NomeAna, email |-> EmailAna]),
         objetivo |-> Obj([texto |-> Str(<<"D", "e", "v", ".", " ", "x">>)]),
         experiencias |-> Arr(<<Experiencia1>>),
         formacoes |-> Arr(<<Formacao1>>),
         habilidades |-> Arr(<<Str(<<"S", "Q", "L">>)>>),
         template |-> Str(<<"moderno">>),
         price |-> Num(2990),
         paid |-> Bool(TRUE)]),
    Obj([dadosPessoais |-> Obj([email |-> EmailAna]),
         experiencias |-> Arr(<<Obj([descricao |-> Str(<<"x">>)])>>),
         formacoes |-> Arr(<<Formacao1>>)]) }

PaymentStatuses == {Str(<<"paid">>)}

\* the events constructEvent verifies: event.type, and of
\* event.data.object its metadata?.orderId, payment_status and id (events
\* of another type are told apart by their orderId only)
Events ==
  [type : {"checkout.session.completed"},
   orderId : OrderIdSpace \cup {Undef},
   payment_status : PaymentStatuses,
   id : SessionIdSpace]
  \cup
  [type : {"payment_intent.succeeded"},
   orderId : {CHOOSE id \in OrderIdSpace : TRUE, Undef},
   payment_status : PaymentStatuses,
   id : {CHOOSE id \in SessionIdSpace : TRUE}]

\* ------------------------------------------------------------------------
\* POST /api/webhooks/stripe
\* ------------------------------------------------------------------------
\* the update document of the webhook's findOneAndUpdate
ConfirmationUpdate(session) ==
  [paid |-> TRUE,
   paymentStatus |-> session.payment_status,
   paymentProvider |-> Str(<<"stripe">>),
   paymentSessionId |-> session.id]

\* a findOneAndUpdate with upsert: a missing document is inserted
FindOneAndUpdate_Upsert(coll, orderId, update, ts) ==
  [id \in DOMAIN coll \cup {orderId} |->
     IF id # orderId THEN coll[id]
     ELSE [f \in DOMAIN NewOrder(orderId, Undef, ts) |->
             IF f \in DOMAIN update THEN update[f]
             ELSE IF f = "updatedAt" THEN ts
             ELSE IF id \in DOMAIN coll THEN coll[id][f]
             ELSE NewOrder(orderId, Undef, ts)[f]]]

\* a findOneAndUpdate that replaces the document: the paths the update
\* does not name go back to the schema's defaults
FindOneAndUpdate_Replace(coll, orderId, update, ts) ==
  IF orderId \in DOMAIN coll
    THEN [coll EXCEPT ![orderId] =
            [f \in DOMAIN @ |->
               IF f \in DOMAIN update THEN update[f]
               ELSE NewOrder(orderId, Undef, ts)[f]]]
    ELSE coll

\* Order.findOneAndUpdate({ orderId }, update): one atomic update of the
\* matching document, no upsert; timestamps: true also sets updatedAt
FindOneAndUpdate(coll, orderId, update, ts) ==
  IF orderId \in DOMAIN coll
    THEN [coll EXCEPT ![orderId] =
            [f \in DOMAIN @ |->
               IF f \in DOMAIN update THEN update[f]
               ELSE IF f = "updatedAt" THEN ts
               ELSE @[f]]]
    ELSE coll

\* the response of the webhook and the lines it wrote to the console
WebhookRespondWith(status, body, log) ==
  [route |-> "webhook", status |-> status, body |-> body, log |-> log]

Logged(msg, arg) == [msg |-> msg, arg |-> arg]

\* constructEvent throws: the signature does not verify
WebhookRejected ==
  /\ response' = WebhookRespondWith(400, Error("Webhook Error"),
                   <<Logged("Erro ao verificar webhook Stripe", Undef)>>)
  /\ UNCHANGED <<orders, now, inflight>>

\* what the handler logs for a verified event
WebhookLog(event) ==
  <<Logged("Webhook verificado", Str(<<event.type>>))>>
  \o (IF event.type = "checkout.session.completed"
        THEN <<Logged("checkout.session.completed para orderId", event.orderId)>>
             \o (IF Truthy(event.orderId)
                   THEN <<Logged("marcado como pago", event.orderId)>>
                   ELSE <<>>)
        ELSE <<>>)

\* a verified event
StripeWebhook ==
  \E event \in Events :
    /\ orders' = IF /\ event.type = "checkout.session.completed"
                    /\ Truthy(event.orderId)
                   THEN FindOneAndUpdate(orders, event.orderId,
                                         ConfirmationUpdate(event), now)
                   ELSE orders
    /\ response' = WebhookRespondWith(200, [received |-> TRUE], WebhookLog(event))
    /\ UNCHANGED <<now, inflight>>

\* ------------------------------------------------------------------------
\* POST /api/create-order
\* ------------------------------------------------------------------------
\* a save without the unique index: the document of the same orderId is
\* written over
Save_Overwrite(coll, order) ==
  [ok |-> TRUE,
   coll |-> [id \in DOMAIN coll \cup {order.orderId} |->
               IF id = order.orderId THEN order ELSE coll[id]]]

\* order.save(): the unique index on orderId rejects a second document
\* with the same orderId
Save(coll, order) ==
  IF order.orderId \in DOMAIN coll
    THEN [ok |-> FALSE, coll |-> coll]
    ELSE [ok |-> TRUE,
          coll |-> [id \in DOMAIN coll \cup {order.orderId} |->
                      IF id = order.orderId THEN order ELSE coll[id]]]

\* Math.floor(Math.random() * 100000).  Nothing reads the number but the
\* orderId it ends, so the numbers are interchangeable: a request draws one
\* that an order of this millisecond already has, or the least that none has
MathRandom(ts) ==
  LET all == 0..(MaxRand - 1)
      taken == {r \in all : OrderIdOf(ts, r) \in DOMAIN orders}
  IN taken \cup (IF taken = all THEN {} ELSE {Min(all \ taken)})

CreateOrder ==
  \E body \in Bodies, r \in MathRandom(now) :
    LET orderId == OrderIdOf(now, r)
        saved == Save(orders, NewOrder(orderId, body, now))
    IN /\ Cardinality(DOMAIN saved.coll) <= MaxOrders
       /\ orders' = saved.coll
       /\ response' = IF saved.ok
                        THEN Respond("create-order", 201, [orderId |-> orderId])
                        ELSE Respond("create-order", 500,
                                     Error("Erro ao criar pedido."))
       /\ UNCHANGED <<now, inflight>>

\* ------------------------------------------------------------------------
\* GET /api/order/:id
\* ------------------------------------------------------------------------
\* the body is the document read, recorded by its paid
GetOrder ==
  \E id \in OrderIdSpace :
    LET order == FindOne(id)
    IN /\ response' = IF order = Null
                        THEN Respond("order", 404, Error("Pedido nao encontrado."))
                        ELSE Respond("order", 200, [paid |-> order.paid])
       /\ UNCHANGED <<orders, now, inflight>>

\* ------------------------------------------------------------------------
\* GET /api/admin/orders
\* ------------------------------------------------------------------------
\* find().sort({createdAt: -1}).limit(100): the body is recorded by the
\* number of documents it lists
AdminOrders ==
  \E tokenOk \in BOOLEAN :
    /\ response' = IF ~tokenOk
                     THEN Respond("admin", 401, Error("Nao autorizado."))
                     ELSE Respond("admin", 200,
                                  [orders |-> Min({Cardinality(DOMAIN orders),
                                                   AdminLimit})])
    /\ UNCHANGED <<orders, now, inflight>>

\* ------------------------------------------------------------------------
\* POST /api/order/:id/checkout-session
\* ------------------------------------------------------------------------
\* stripe.checkout.sessions.create({...}) for the document read; the
\* response's checkoutUrl is the url of this session
NewSession(order, id) ==
  [id |-> id,
   orderId |-> order.orderId,
   unit_amount |-> order.price.n,
   currency |-> "brl"]

\* the findOne.  A request that read no order, or a paid one, is answered
\* from what it read; one that read an unpaid order resumes later with the
\* document it read
CheckoutFind ==
  \E id \in OrderIdSpace :
    LET order == FindOne(id)
    IN IF order = Null
         THEN /\ response' = Respond("checkout-session", 404,
                                     Error("Pedido nao encontrado."))
              /\ UNCHANGED <<orders, now, inflight>>
       ELSE IF order.paid
         THEN /\ response' = Respond("checkout-session", 200, [alreadyPaid |-> TRUE])
              /\ UNCHANGED <<orders, now, inflight>>
       ELSE /\ Cardinality(inflight) < MaxInflight
            /\ inflight' = inflight \cup {Fields(order, {"orderId", "price"})}
            /\ UNCHANGED <<orders, now, response>>

\* the handler resumes: it asks Stripe for a session and answers with its
\* url, or with 500 when Stripe rejects
CheckoutRespond ==
  \E order \in inflight, stripeOk \in BOOLEAN, id \in SessionIdSpace :
    /\ inflight' = inflight \ {order}
    /\ response' = IF ~stripeOk
                     THEN Respond("checkout-session", 500,
                                  Error("Erro ao criar sessao de pagamento."))
                     ELSE Respond("checkout-session", 200,
                                  [checkoutUrl |-> NewSession(order, id)])
    /\ UNCHANGED <<orders, now>>

\* ------------------------------------------------------------------------
\* GET /api/order/:id/pdf
\* ------------------------------------------------------------------------
\* a === b
StrictEq(a, b) == a.t = b.t /\ a = b

ToLowerChar(c) ==
  CASE c = "A" -> "a" [] c = "B" -> "b" [] c = "C" -> "c" [] c = "D" -> "d"
    [] c = "E" -> "e" [] c = "F" -> "f" [] c = "G" -> "g" [] c = "H" -> "h"
    [] c = "I" -> "i" [] c = "J" -> "j" [] c = "K" -> "k" [] c = "L" -> "l"
    [] c = "M" -> "m" [] c = "N" -> "n" [] c = "O" -> "o" [] c = "P" -> "p"
    [] c = "Q" -> "q" [] c = "R" -> "r" [] c = "S" -> "s" [] c = "T" -> "t"
    [] c = "U" -> "u" [] c = "V" -> "v" [] c = "W" -> "w" [] c = "X" -> "x"
    [] c = "Y" -> "y" [] c = "Z" -> "z" [] OTHER -> c

\* s.toLowerCase()
ToLowerCase(s) == [i \in 1..Len(s) |-> ToLowerChar(s[i])]

\* s.replace(/\s+/g, '-')
ReplaceSpaces(s) ==
  Flatten([i \in 1..Len(s) |->
             IF ~IsSpace(s[i]) THEN <<s[i]>>
             ELSE IF i > 1 /\ IsSpace(s[i - 1]) THEN <<>>
             ELSE <<"-">>])

\* the file name of the Content-disposition header; toLowerCase is a
\* method of strings only
Filename(dadosPessoais) ==
  LET nome == OrElse(OptGet(dadosPessoais, "nome"), Str(<<"usuario">>))
  IN IF nome.t # "string" THEN Threw(<<>>)
     ELSE Ok(<<"curriculo-">> \o ReplaceSpaces(ToLowerCase(nome.s)) \o <<".pdf">>)

\* a normalization that does not know the legacy alias
NormalizeTemplate_NoAlias(orderTemplate) ==
  LET rawTemplate == OrElse(orderTemplate, Str(<<"classico">>))
  IN IF StrictEq(rawTemplate, Str(<<"classico">>)) \/ StrictEq(rawTemplate, Str(<<"moderno">>))
       THEN rawTemplate
       ELSE Str(<<"classico">>)

\* the template the download renders with
NormalizeTemplate(orderTemplate) ==
  LET rawTemplate == OrElse(orderTemplate, Str(<<"classico">>))
  IN IF StrictEq(rawTemplate, Str(<<"classico">>)) \/ StrictEq(rawTemplate, Str(<<"moderno">>))
       THEN rawTemplate
       ELSE IF StrictEq(rawTemplate, Str(<<"escuro">>)) THEN Str(<<"moderno">>)
       ELSE Str(<<"classico">>)

\* const { dadosPessoais, ..., formacao, ... } = order.data || {}
RenderArgs(order) ==
  LET data == OrElse(order.data, Obj(<<>>))
  IN [dadosPessoais |-> Get(data, "dadosPessoais"),
      objetivo |-> Get(data, "objetivo"),
      experiencias |-> Get(data, "experiencias"),
      formacao |-> Get(data, "formacao"),
      habilidades |-> Get(data, "habilidades"),
      idiomas |-> Get(data, "idiomas"),
      cursos |-> Get(data, "cursos")]

NoCall == [fn |-> "none"]

\* the response of a download: the orderId of the document read, the
\* status, the body and the renderer call made
PdfRespondWith(id, status, body, call) ==
  [route |-> "pdf", id |-> id, status |-> status, body |-> body, rendered |-> call]

\* the handler once the paid check passed: headers, template, renderer
PdfRender(id, order) ==
  LET args == RenderArgs(order)
      filename == Filename(args.dadosPessoais)
      template == NormalizeTemplate(order.template)
      fn == IF StrictEq(template, Str(<<"classico">>))
              THEN "renderClassic" ELSE "renderModern"
      result == IF fn = "renderClassic" THEN renderClassic(args)
                ELSE renderModern(args)
      call == [fn |-> fn, args |-> args]
  IN IF filename.threw
       THEN PdfRespondWith(id, 500, Error("Erro ao gerar PDF."), NoCall)
     ELSE IF result.threw
       THEN PdfRespondWith(id, 500, Error("Erro ao gerar PDF."), call)
     ELSE PdfRespondWith(id, 200, [filename |-> filename.doc, doc |-> result.doc], call)

PaymentRequired(id) ==
  PdfRespondWith(id, 403,
                 Error("Pagamento ainda nao confirmado. Download nao autorizado."), NoCall)

\* a download handler that renders without looking at order.paid
PdfResponse_NoPaidCheck(id, order) ==
  IF order = Null
    THEN PdfRespondWith(Undef, 404, Error("Pedido nao encontrado."), NoCall)
  ELSE PdfRender(id, order)

\* the download handler, from the document its findOne(...).lean() read
PdfResponse(id, order) ==
  IF order = Null
    THEN PdfRespondWith(Undef, 404, Error("Pedido nao encontrado."), NoCall)
  ELSE IF ~order.paid
    THEN PaymentRequired(id)
  ELSE PdfRender(id, order)

\* the handler reads the collection once and writes nothing: what it
\* answers is decided by the document read, so it is one step
DownloadPdf ==
  \E id \in OrderIdSpace :
    /\ response' = PdfResponse(id, FindOne(id))
    /\ UNCHANGED <<orders, now, inflight>>

\* ------------------------------------------------------------------------
\* Time and the specification
\* ------------------------------------------------------------------------
Tick ==
  /\ now < MaxClock
  /\ now' = now + 1
  /\ UNCHANGED <<orders, inflight, response>>

Init ==
  /\ orders = <<>>
  /\ now = 0
  /\ inflight = {}
  /\ response = [route |-> "none"]

Next ==
  \/ WebhookRejected
  \/ StripeWebhook
  \/ CreateOrder
  \/ GetOrder
  \/ AdminOrders
  \/ CheckoutFind
  \/ CheckoutRespond
  \/ DownloadPdf
  \/ Tick

Spec == Init /\ [][Next]_vars

\* ------------------------------------------------------------------------
\* The download of the documents findOne(...).lean() can read
\* ------------------------------------------------------------------------
\* order.template: absent, empty, the two names, the legacy alias, and
\* names the handler does not know
StoredTemplates ==
  {Undef, Str(<<>>), Str(<<"classico">>), Str(<<"moderno">>), Str(<<"escuro">>),
   Str(<<"Moderno">>), Str(<<"x">>)}

Inicios == {Undef, Str(<<"2", "0", "2", "0">>)}
Fins == {Undef, Null, Str(<<"2", "0", "2", "2">>)}

CargoDev == Str(<<"D", "e", "v">>)

\* an experience entry with a role, and the start and end given
ExperienciaDe(inicio, fim) == Obj([cargo |-> CargoDev, inicio |-> inicio, fim |-> fim])

\* order.data: one experience entry of every start and end; data,
\* sub-structures, fields of an entry and entries that are absent
StoredDatas ==
  {Obj([experiencias |-> Arr(<<ExperienciaDe(inicio, fim)>>)]) :
     inicio \in Inicios, fim \in Fins}
  \cup
  {Undef,
   Obj([dadosPessoais |-> Null, objetivo |-> Null, experiencias |-> Null,
        formacoes |-> Null, habilidades |-> Null, idiomas |-> Null, cursos |-> Null]),
   Obj([dadosPessoais |-> Obj([nome |-> Undef]), objetivo |-> Obj([texto |-> Null]),
        experiencias |-> Arr(<<Obj([cargo |-> Undef])>>),
        formacoes |-> Arr(<<Obj([curso |-> Null])>>),
        habilidades |-> Arr(<<Null>>),
        idiomas |-> Arr(<<Obj([nome |-> Undef])>>),
        cursos |-> Arr(<<Obj([nome |-> Null])>>)]),
   Obj([experiencias |-> Arr(<<Null>>)]),
   Obj([cursos |-> Arr(<<Undef>>)])}

\* a paid document of the Order collection
StoredDocument(template, data) ==
  [orderId |-> OrderIdOf(0, 0),
   price |-> Num(DefaultPrice),
   currency |-> Str(<<"BRL">>),
   paid |-> TRUE,
   paymentStatus |-> Str(<<"paid">>),
   paymentProvider |-> Str(<<"stripe">>),
   paymentSessionId |-> CHOOSE id \in SessionIdSpace : TRUE,
   template |-> template,
   data |-> data,
   createdAt |-> 0,
   updatedAt |-> 0]

\* the collection holds one paid document
RenderInit ==
  /\ \E template \in StoredTemplates, data \in StoredDatas :
       orders = [id \in {OrderIdOf(0, 0)} |-> StoredDocument(template, data)]
  /\ now = 0
  /\ inflight = {}
  /\ response = [route |-> "none"]

RenderNext == DownloadPdf

RenderSpec == RenderInit /\ [][RenderNext]_vars

\* ------------------------------------------------------------------------
\* Properties
\* ------------------------------------------------------------------------
\* the step is a download of id (a repeated download with the same answer
\* changes nothing)
DownloadStep(id) ==
  /\ response' # response
  /\ response'.route = "pdf"
  /\ response'.id = id

C1_PaywallStep ==
  \A id \in DOMAIN orders :
    (DownloadStep(id) /\ ~orders[id].paid) => response' = PaymentRequired(id)

C1_RenderOnlyPaid ==
  /\ "rendered" \in DOMAIN response => response.route = "pdf"
  /\ (response.route = "pdf" /\ response.rendered # NoCall)
       => /\ response.id \in DOMAIN orders
          /\ orders[response.id].paid
          /\ response.rendered.args = RenderArgs(orders[response.id])

\* C1: a download of a stored order whose paid is false answers 403
\* PaymentRequired, with no renderer call and no resume data; a renderer
\* call appears only in a download response, and only for a paid order.
C1_Paywall == [][C1_PaywallStep]_vars /\ []C1_RenderOnlyPaid

\* an unpaid order exists and a download of it was just refused
C1_Witness ==
  /\ response.route = "pdf" /\ response.status = 403
  /\ response.id \in DOMAIN orders
  /\ ~orders[response.id].paid

\* C2: paid never goes from true to false, so it changes at most once,
\* from false to true, and no order is removed.
C2_PaidMonotone ==
  [][\A id \in DOMAIN orders :
       /\ id \in DOMAIN orders'
       /\ orders[id].paid => orders'[id].paid]_vars

\* an order was confirmed some time after its creation
C2_Witness ==
  \E id \in DOMAIN orders : orders[id].paid /\ orders[id].updatedAt > orders[id].createdAt

SamePayment(o1, o2) ==
  /\ o1.paymentStatus = o2.paymentStatus
  /\ o1.paymentProvider = o2.paymentProvider
  /\ o1.paymentSessionId = o2.paymentSessionId

\* C3: a confirmation applied to an order that is already paid is a no-op:
\* the payment status, provider and session id of a paid order stay those
\* of the first confirmation applied, and paid stays true.
C3_FirstConfirmationWins ==
  [][\A id \in DOMAIN orders :
       orders[id].paid =>
         /\ id \in DOMAIN orders'
         /\ orders'[id].paid
         /\ SamePayment(orders'[id], orders[id])]_vars

\* C4: delivering again the confirmation a paid order already carries (a
\* step that leaves its payment status, provider and session id as they
\* are) leaves every field of the record as it was, updatedAt included.
C4_ReplayIdempotent ==
  [][\A id \in DOMAIN orders :
       (/\ orders[id].paid
        /\ id \in DOMAIN orders'
        /\ SamePayment(orders'[id], orders[id]))
         => orders'[id] = orders[id]]_vars

\* the webhook logged a checkout.session.completed for an orderId that
\* matches no stored order
UnknownOrderLogged(resp, coll) ==
  /\ resp.route = "webhook"
  /\ \E i \in DOMAIN resp.log :
       /\ resp.log[i].msg = "checkout.session.completed para orderId"
       /\ resp.log[i].arg \notin DOMAIN coll

\* C5: a confirmation event whose orderId matches no stored order leaves
\* the stored orders as they are and is answered 200 { received: true }.
C5_UnknownOrderIgnored ==
  [][UnknownOrderLogged(response', orders)
       => /\ orders' = orders
          /\ response'.status = 200
          /\ response'.body = [received |-> TRUE]]_vars

\* an order is stored and a confirmation for another orderId was handled
C5_Witness ==
  /\ orders # <<>>
  /\ response.route = "webhook"
  /\ \E i \in DOMAIN response.log :
       /\ response.log[i].msg = "marcado como pago"
       /\ response.log[i].arg \notin DOMAIN orders

HasNameAndEmail(order) ==
  LET dadosPessoais == Get(order.data, "dadosPessoais")
  IN Truthy(OptGet(dadosPessoais, "nome")) /\ Truthy(OptGet(dadosPessoais, "email"))

\* C6: only create requests carrying both a name and an email store an
\* order; the others are answered with a 4xx validation error.
C6_CreateValidates ==
  /\ \A id \in DOMAIN orders : HasNameAndEmail(orders[id])
  /\ (response.route = "create-order" /\ response.status = 201)
       => HasNameAndEmail(orders[response.body.orderId])

HasText(doc, content) ==
  \E i \in DOMAIN doc : doc[i].op = "text" /\ doc[i].content = content

IdentifiedEntries(arr, k1, k2) ==
  {i \in DOMAIN arr.a : Truthy(Get(arr.a[i], k1)) \/ Truthy(Get(arr.a[i], k2))}

\* C7: the renderer of a download gets the data stored on the order, the
\* education entries included, and the Education section is in the
\* document when an entry has a program or an institution.
C7_RendererGetsStoredData ==
  (response.route = "pdf" /\ response.status = 200)
    => LET id == response.id
           data == orders[id].data
           args == response.rendered.args
       IN /\ orders[id].paid
          /\ args.dadosPessoais = Get(data, "dadosPessoais")
          /\ args.objetivo = Get(data, "objetivo")
          /\ args.experiencias = Get(data, "experiencias")
          /\ args.habilidades = Get(data, "habilidades")
          /\ args.idiomas = Get(data, "idiomas")
          /\ args.cursos = Get(data, "cursos")
          /\ IdentifiedEntries(Get(data, "formacoes"), "curso", "instituicao") # {}
               => /\ args.formacao = Get(data, "formacoes")
                  /\ \/ HasText(response.body.doc, <<"FORMACAO ACADEMICA", ":">>)
                     \/ HasText(response.body.doc, <<"EDUCACAO">>)

\* C8: no step changes the orderId, data, price or currency of a stored
\* order.
C8_CreationFieldsImmutable ==
  [][\A id \in DOMAIN orders :
       /\ id \in DOMAIN orders'
       /\ orders'[id].orderId = orders[id].orderId
       /\ orders'[id].data = orders[id].data
       /\ orders'[id].price = orders[id].price
       /\ orders'[id].currency = orders[id].currency]_vars

\* a stored order was confirmed, by an event that carried a session id,
\* and then downloaded
C8_Witness ==
  /\ response.route = "pdf" /\ response.status = 200
  /\ \E id \in DOMAIN orders :
       /\ response.id = id
       /\ orders[id].paid /\ orders[id].paymentSessionId \in SessionIdSpace

\* the step is a checkout-session request resuming with a session issued
SessionIssued ==
  /\ inflight' # inflight /\ inflight' \subseteq inflight
  /\ response'.route = "checkout-session" /\ response'.status = 200

\* C9: when a checkout session is issued for a stored unpaid order, the
\* order carries the session's id afterwards and is still unpaid.
C9_CheckoutRecordsSession ==
  [][SessionIssued =>
       LET s == response'.body.checkoutUrl
       IN (s.orderId \in DOMAIN orders /\ ~orders[s.orderId].paid)
            => /\ orders'[s.orderId].paymentSessionId = s.id
               /\ ~orders'[s.orderId].paid]_vars

\* C10: the experiences title and rule are written only when some
\* experience entry has a role or an organization.
C10_ExperienceSectionNeedsEntry ==
  (response.route = "pdf" /\ response.status = 200)
    => LET experiencias == response.rendered.args.experiencias
           written == \/ HasText(response.body.doc, <<"EXPERIENCIA PROFISSIONAL", ":">>)
                      \/ HasText(response.body.doc, <<"EXPERIENCIA">>)
       IN written => /\ experiencias.t = "array"
                     /\ IdentifiedEntries(experiencias, "cargo", "empresa") # {}

\* the texts written after the line that reads content
TextsAfter(doc, content) ==
  LET at == {i \in DOMAIN doc : doc[i].op = "text" /\ doc[i].content = content}
  IN {doc[j].content :
        j \in {k \in DOMAIN doc : doc[k].op = "text" /\ \E i \in at : i < k}}

\* the range the claim gives an entry: start and end joined, the start
\* alone (classic) or the start and "Atual" (modern), or none
ExpectedRange(fn, inicio, fim) ==
  IF Truthy(inicio) /\ Truthy(fim) THEN {Join(<<inicio, fim>>, " - ")}
  ELSE IF Truthy(inicio)
    THEN IF fn = "renderModern"
           THEN {Join(<<inicio, Str(<<"Atual">>)>>, " - ")}
           ELSE {inicio.s}
  ELSE {}

\* the stored data is one experience entry, with the role CargoDev
OneExperience(data) ==
  /\ Get(data, "experiencias").t = "array"
  /\ Len(Get(data, "experiencias").a) = 1
  /\ Get(Get(data, "experiencias").a[1], "cargo") = CargoDev

\* C11: an experience entry with a start and no end is written with the
\* range "{start} - Atual" by the modern template and "{start}" by the
\* classic one; with both, "{start} - {end}"; with neither, no range.
C11_DateRange ==
  (response.route = "pdf" /\ response.status = 200)
    => LET data == orders[response.id].data
           exp == Get(data, "experiencias").a[1]
           inicio == Get(exp, "inicio")
           fim == Get(exp, "fim")
       IN (OneExperience(data) /\ (Truthy(inicio) \/ ~Truthy(fim)))
            => TextsAfter(response.body.doc, CargoDev.s)
                 = ExpectedRange(response.rendered.fn, inicio, fim)

\* C12: whatever sub-structures, fields of an entry or entries are absent
\* from the stored data, the renderer runs to completion and the download
\* ends with a document, not with an error result.
C12_RenderNeverFails ==
  (response.route = "pdf" /\ response.id \in DOMAIN orders)
    => /\ response.status = 200
       /\ response.rendered.fn \in {"renderClassic", "renderModern"}

\* the renderer the claim gives a stored template value
VariantOf(template) ==
  IF template \in {Str(<<"moderno">>), Str(<<"escuro">>)}
    THEN "renderModern" ELSE "renderClassic"

\* C13: the download of a paid order resolves the stored template to
\* exactly one renderer: 'moderno' and the legacy alias 'escuro' to the
\* modern one, 'classico' and every other value (absent, empty,
\* unrecognized) to the classic one, the same at every download.
C13_TemplateNormalized ==
  (response.route = "pdf" /\ response.id \in DOMAIN orders /\ orders[response.id].paid)
    => response.rendered.fn = VariantOf(orders[response.id].template)

\* a document stored with the legacy alias was rendered by renderModern
C13_Witness ==
  /\ response.route = "pdf" /\ response.id \in DOMAIN orders
  /\ orders[response.id].template = Str(<<"escuro">>)
  /\ response.rendered.fn = "renderModern"

\* the step handled a verified checkout.session.completed event that
\* carries the orderId id
ConfirmationHandled(id) ==
  /\ response'.route = "webhook" /\ response'.status = 200
  /\ \E i \in DOMAIN response'.log :
       response'.log[i] = Logged("Webhook verificado", Str(<<"checkout.session.completed">>))
  /\ \E i \in DOMAIN response'.log :
       response'.log[i] = Logged("checkout.session.completed para orderId", id)

\* C14: an order becomes paid, or is stored paid, only in a step that
\* handles a verified checkout.session.completed event carrying its
\* orderId; no other request, whatever its body, sets paid.
C14_PaidOnlyByConfirmation ==
  [][\A id \in DOMAIN orders' :
       (orders'[id].paid /\ (id \in DOMAIN orders => ~orders[id].paid))
         => ConfirmationHandled(id)]_vars

\* an order created from a body that carries paid: true was stored unpaid
\* and later confirmed by the event just handled
C14_Witness ==
  /\ response.route = "webhook" /\ response.status = 200
  /\ \E id \in DOMAIN orders :
       /\ orders[id].paid
       /\ orders[id].price = Num(2990)
       /\ \E i \in DOMAIN response.log :
            response.log[i] = Logged("checkout.session.completed para orderId", id)

\* C15: no payment session is created for an order that is already paid:
\* in every interleaving of checkout-session requests and confirmation
\* events, the order is unpaid at the moment Stripe is asked for a session.
C15_NoSessionForPaidOrder ==
  [][SessionIssued =>
       LET s == response'.body.checkoutUrl
       IN /\ s.orderId \in DOMAIN orders
          /\ ~orders[s.orderId].paid]_vars

====
